---- MODULE Spec2Model ----
(***************************************************************************)
(* The two notebooks of the course material as state machines.             *)
(*                                                                         *)
(*   ch07dry/040Exceptions.ipynb.py   read_credentials (three versions),   *)
(*                                    f1 -> f2 -> f3 -> f4, analysis       *)
(*                                    (three versions), higher_function    *)
(*   ch01python/037comprehensions.ipynb.py   list comprehensions and the   *)
(*                                    append loops they are compared with  *)
(*                                                                         *)
(* A call is executed statement by statement: pc is the source line of the *)
(* statement about to run (0 when no call is running).  An exception in    *)
(* flight is the variable exc; pc then stands at the except / finally      *)
(* clause of the enclosing try statement.                                  *)
(***************************************************************************)
EXTENDS Integers, Sequences

VARIABLES
    fs,        \* the working directory: path -> [exists, text]
    handles,   \* file objects created by open() in this call: <<[path, closed]>>
    cell,      \* the function (or notebook cell) of the current call
    arg,       \* its argument
    pc,        \* source line of the next statement, 0 = no call running
    loc,       \* the local variables of the running function
    exc,       \* the exception in flight, NoExc when there is none
    raised,    \* every exception raised during this call, in order
    handling,  \* stack of the exceptions whose except clause is executing
    handled,   \* the except clauses that intercepted an exception, in order
    out,       \* what the call printed
    outcome,   \* how the call ended: returned value or escaped exception
    trace,     \* the source lines executed by this call, in order
    prev       \* the preceding call, kept while its successor is compared with it

vars == <<fs, handles, cell, arg, pc, loc, exc, raised, handling, handled, out,
          outcome, trace, prev>>

----------------------------------------------------------------------------
(* Python values *)

PyNone == [t |-> "None"]
Unbound == [t |-> "unbound"]
Str(toks) == [t |-> "str", s |-> toks]
Dict(m) == [t |-> "dict", m |-> m]
PyInt(i) == [t |-> "int", v |-> i]
Tuple(a, b) == [t |-> "tuple", items |-> <<a, b>>]
List(items) == [t |-> "list", items |-> items]
File(h) == [t |-> "file", h |-> h]

EmptyMap == [k \in {} |-> PyNone]

(* A str is the sequence of its tokens; "\n" ends a line of a YAML text. *)
NL == "\n"

----------------------------------------------------------------------------
(* Exceptions *)

NoExc == [id |-> 0, type |-> "none", cause |-> 0, context |-> 0, line |-> 0]

(* The class hierarchy of the exception types the notebook uses. *)
Parent(c) ==
    CASE c = "ZeroDivisionError" -> "ArithmeticError"
      [] c = "MyCustomErrorType" -> "ArithmeticError"
      [] c = "FileNotFoundError" -> "OSError"
      [] c = "KeyError" -> "LookupError"
      [] c = "UnboundLocalError" -> "NameError"
      [] c \in {"ArithmeticError", "OSError", "LookupError", "NameError",
                "TypeError", "SyntaxError", "ValueError", "RuntimeError"} -> "Exception"
      [] OTHER -> "BaseException"

(* IOError is the same class as OSError. *)
ClassOf(name) == IF name = "IOError" THEN "OSError" ELSE name

RECURSIVE IsSubclass(_, _)
IsSubclass(c, d) ==
    \/ c = d
    \/ c # "BaseException" /\ IsSubclass(Parent(c), d)

(* except <name>: matches an exception whose class is <name> or below it. *)
Matches(e, name) == e.id # 0 /\ IsSubclass(e.type, ClassOf(name))

(* The exception object a raise statement creates now. *)
NewExc(type, cause) ==
    [id |-> Len(raised) + 1, type |-> type, cause |-> cause,
     context |-> IF handling = <<>> THEN 0 ELSE handling[Len(handling)],
     line |-> pc]

(* raise: the exception is in flight and control is at the line `to`. *)
Throw(type, to) ==
    /\ exc' = NewExc(type, 0)
    /\ raised' = Append(raised, NewExc(type, 0))
    /\ pc' = to

(* raise with no enclosing try statement: the exception leaves the call. *)
RaiseOut(type, cause) ==
    /\ raised' = Append(raised, NewExc(type, cause))
    /\ pc' = 0
    /\ exc' = NoExc
    /\ outcome' = [kind |-> "raise", val |-> PyNone, exc |-> NewExc(type, cause)]

(* The call ends with the exception e leaving the function. *)
Escape(e) ==
    /\ pc' = 0
    /\ exc' = NoExc
    /\ outcome' = [kind |-> "raise", val |-> PyNone, exc |-> e]

(* The call ends by returning v. *)
Return(v) ==
    /\ pc' = 0
    /\ exc' = NoExc
    /\ outcome' = [kind |-> "return", val |-> v, exc |-> NoExc]

NoOutcome == [kind |-> "none", val |-> PyNone, exc |-> NoExc]

----------------------------------------------------------------------------
(* Files and YAML *)

Paths == {"datasource.yaml", "datasource2.yaml", "datasource3.yaml", "example.yaml"}

Absent == [exists |-> FALSE, text |-> <<>>]
Present(text) == [exists |-> TRUE, text |-> text]

Creds2Text == <<"userid", ":", "eidle", NL, "password", ":", "secret", NL>>
Creds3Text == <<"user", ":", "eidle", NL, "password", ":", "secret", NL>>
ExampleText == <<"modelname", ":", "brilliant", NL>>

(* Other texts a file of the working directory may hold. *)
OtherTexts == { <<"userid", ":", "eidle", NL>>, <<>>, <<"hello">> }

FileStates == {Absent} \cup {Present(t) : t \in {Creds2Text, Creds3Text, ExampleText} \cup OtherTexts}

(* open(source): the path names an existing file of the working directory. *)
CanOpen(source) ==
    /\ source.t = "str"
    /\ Len(source.s) = 1
    /\ source.s[1] \in Paths
    /\ fs[source.s[1]].exists

(* yaml.safe_load of a block mapping "key: value" lines. *)
RECURSIVE LoadMapping(_, _)
LoadMapping(toks, m) ==
    IF Len(toks) < 3 THEN Dict(m)
    ELSE LET k == toks[1]
             v == Str(<<toks[3]>>)
             skip == IF Len(toks) >= 4 /\ toks[4] = NL THEN 5 ELSE 4
         IN LoadMapping(SubSeq(toks, skip, Len(toks)),
                        [x \in DOMAIN m \cup {k} |-> IF x = k THEN v ELSE m[x]])

(* yaml.safe_load(text): an empty document is None, a document without    *)
(* "key: value" lines is a plain scalar, otherwise it is a mapping.        *)
SafeLoad(toks) ==
    IF toks = <<>> THEN PyNone
    ELSE IF Len(toks) >= 3 /\ toks[2] = ":" THEN LoadMapping(toks, EmptyMap)
    ELSE Str(toks)

(* v[key]: the value, or the type of the exception the subscript raises. *)
Subscript(v, key) ==
    IF v.t = "dict"
    THEN IF key \in DOMAIN v.m
         THEN [ok |-> TRUE, val |-> v.m[key], err |-> "none"]
         ELSE [ok |-> FALSE, val |-> PyNone, err |-> "KeyError"]
    ELSE [ok |-> FALSE, val |-> PyNone, err |-> "TypeError"]

----------------------------------------------------------------------------
(* Starting a call *)

NoLocals ==
    [source |-> Unbound, datasource |-> Unbound, config |-> Unbound,
     user |-> Unbound, password |-> Unbound, content |-> Unbound,
     name |-> Unbound, e |-> Unbound, x |-> Unbound, it |-> Unbound,
     result |-> Unbound]

NoPrev == [cell |-> "none", arg |-> PyNone, out |-> <<>>, outcome |-> NoOutcome]

PathArgs == {Str(<<p>>) : p \in Paths}

(* A cell calls function c with argument a; its first statement is at `first`. *)
Begin(c, a, first) ==
    /\ pc = 0
    /\ cell' = c
    /\ arg' = a
    /\ pc' = first
    /\ loc' = [NoLocals EXCEPT !.source = a]
    /\ exc' = NoExc
    /\ raised' = <<>>
    /\ handling' = <<>>
    /\ handled' = <<>>
    /\ out' = <<>>
    /\ outcome' = NoOutcome
    /\ handles' = <<>>
    /\ trace' = <<>>
    /\ prev' = IF cell = "analysis_1" /\ c = "analysis_2"
               THEN [cell |-> cell, arg |-> arg, out |-> out, outcome |-> outcome]
               ELSE NoPrev
    /\ UNCHANGED fs

(* The statement at `line` of function c is the next to run. *)
At(c, line) ==
    /\ cell = c
    /\ pc = line
    /\ trace' = Append(trace, line)
    /\ UNCHANGED <<fs, cell, arg, prev>>

(* An except clause catches the exception in flight. *)
Catch(clause) ==
    /\ handled' = Append(handled, [by |-> clause, id |-> exc.id, type |-> exc.type])
    /\ exc' = NoExc

(* datasource = open(source), inside a try statement whose clauses start at `to`. *)
OpenDatasource(next, to) ==
    IF CanOpen(loc.source)
    THEN /\ handles' = Append(handles, [path |-> loc.source.s[1], closed |-> FALSE])
         /\ loc' = [loc EXCEPT !.datasource = File(Len(handles) + 1)]
         /\ pc' = next
         /\ UNCHANGED <<exc, raised>>
    ELSE /\ Throw("FileNotFoundError", to)
         /\ UNCHANGED <<handles, loc>>

(* The text read through file object f. *)
ReadText(f) == fs[handles[f.h].path].text

(* <var> = config[key], inside a try statement whose clauses start at `to`. *)
AssignFromConfig(var, key, next, to) ==
    LET r == Subscript(loc.config, key)
    IN IF r.ok
       THEN /\ loc' = [loc EXCEPT ![var] = r.val]
            /\ pc' = next
            /\ UNCHANGED <<exc, raised>>
       ELSE /\ Throw(r.err, to)
            /\ UNCHANGED loc

Anonymous == Str(<<"anonymous">>)

----------------------------------------------------------------------------
(* Cells that write the fixture files *)

WriteCell(c) ==
    /\ pc = 0
    /\ cell' = c
    /\ arg' = PyNone
    /\ loc' = NoLocals
    /\ raised' = <<>>
    /\ handling' = <<>>
    /\ handled' = <<>>
    /\ out' = <<>>
    /\ handles' = <<>>
    /\ trace' = <<>>
    /\ prev' = NoPrev
    /\ Return(PyNone)

WriteCredentialFiles ==
    /\ WriteCell("write_credentials")
    /\ fs' = [fs EXCEPT !["datasource2.yaml"] = Present(Creds2Text),
                        !["datasource3.yaml"] = Present(Creds3Text)]

WriteExample ==
    /\ WriteCell("write_example")
    /\ fs' = [fs EXCEPT !["example.yaml"] = Present(ExampleText)]

----------------------------------------------------------------------------
(* read_credentials, first version *)

CallReadCredentials1 ==
    /\ pc = 0
    /\ \E s \in PathArgs : Begin("read_credentials_1", s, 160)

RC1_open ==
    /\ At("read_credentials_1", 160)
    /\ OpenDatasource(161, 165)
    /\ UNCHANGED <<handling, handled, out, outcome>>

RC1_safe_load ==
    /\ At("read_credentials_1", 161)
    /\ loc' = [loc EXCEPT !.config = SafeLoad(ReadText(loc.datasource))]
    /\ pc' = 162
    /\ UNCHANGED <<handles, exc, raised, handling, handled, out, outcome>>

RC1_user ==
    /\ At("read_credentials_1", 162)
    /\ AssignFromConfig("user", "userid", 163, 165)
    /\ UNCHANGED <<handles, handling, handled, out, outcome>>

RC1_password ==
    /\ At("read_credentials_1", 163)
    /\ AssignFromConfig("password", "password", 164, 165)
    /\ UNCHANGED <<handles, handling, handled, out, outcome>>

(* RC1_close with the close() call forgotten. *)
RC1_close_forgotten ==
    /\ At("read_credentials_1", 164)
    /\ pc' = 173
    /\ UNCHANGED <<handles, loc, exc, raised, handling, handled, out, outcome>>

RC1_close ==
    /\ At("read_credentials_1", 164)
    /\ handles' = [handles EXCEPT ![loc.datasource.h].closed = TRUE]
    /\ pc' = 173
    /\ UNCHANGED <<loc, exc, raised, handling, handled, out, outcome>>

RC1_except_FileNotFoundError ==
    /\ At("read_credentials_1", 165)
    /\ Matches(exc, "FileNotFoundError")
    /\ Catch("read_credentials_1:FileNotFoundError")
    /\ out' = Append(out, "Password file missing")
    /\ loc' = [loc EXCEPT !.user = Anonymous, !.password = PyNone]
    /\ pc' = 173
    /\ UNCHANGED <<handles, raised, handling, outcome>>

RC1_except_KeyError ==
    /\ At("read_credentials_1", 165)
    /\ ~Matches(exc, "FileNotFoundError")
    /\ Matches(exc, "KeyError")
    /\ Catch("read_credentials_1:KeyError")
    /\ out' = Append(out, "Expected keys not found in file")
    /\ loc' = [loc EXCEPT !.user = Anonymous, !.password = PyNone]
    /\ pc' = 173
    /\ UNCHANGED <<handles, raised, handling, outcome>>

RC1_unhandled ==
    /\ At("read_credentials_1", 165)
    /\ ~Matches(exc, "FileNotFoundError")
    /\ ~Matches(exc, "KeyError")
    /\ Escape(exc)
    /\ UNCHANGED <<handles, loc, raised, handling, handled, out>>

RC1_return ==
    /\ At("read_credentials_1", 173)
    /\ Return(Tuple(loc.user, loc.password))
    /\ UNCHANGED <<handles, loc, raised, handling, handled, out>>

----------------------------------------------------------------------------
(* The finally clause of the second and third versions: datasource.close() *)
(* at `line`, then the pending exception leaves the function or control     *)
(* goes on to the return statement at `next`.                               *)

(* FinallyClose with close() placed after the try statement instead of in *)
(* a finally clause: a pending exception leaves before the file is closed. *)
CloseAfterTry(next) ==
    IF exc # NoExc
    THEN /\ Escape(exc)
         /\ UNCHANGED <<raised, handles>>
    ELSE IF loc.datasource = Unbound
    THEN /\ RaiseOut("UnboundLocalError", 0)
         /\ UNCHANGED handles
    ELSE /\ handles' = [handles EXCEPT ![loc.datasource.h].closed = TRUE]
         /\ pc' = next
         /\ UNCHANGED <<exc, raised, outcome>>

FinallyClose(next) ==
    IF loc.datasource = Unbound
    THEN /\ RaiseOut("UnboundLocalError", 0)
         /\ UNCHANGED handles
    ELSE /\ handles' = [handles EXCEPT ![loc.datasource.h].closed = TRUE]
         /\ IF exc # NoExc
            THEN /\ Escape(exc)
                 /\ UNCHANGED raised
            ELSE /\ pc' = next
                 /\ UNCHANGED <<exc, raised, outcome>>

(* read_credentials, second version: try / except / finally *)

CallReadCredentials2 ==
    /\ pc = 0
    /\ \E s \in PathArgs : Begin("read_credentials_2", s, 192)

RC2_open ==
    /\ At("read_credentials_2", 192)
    /\ OpenDatasource(193, 196)
    /\ UNCHANGED <<handling, handled, out, outcome>>

RC2_safe_load ==
    /\ At("read_credentials_2", 193)
    /\ loc' = [loc EXCEPT !.config = SafeLoad(ReadText(loc.datasource))]
    /\ pc' = 194
    /\ UNCHANGED <<handles, exc, raised, handling, handled, out, outcome>>

RC2_user ==
    /\ At("read_credentials_2", 194)
    /\ AssignFromConfig("user", "userid", 195, 196)
    /\ UNCHANGED <<handles, handling, handled, out, outcome>>

RC2_password ==
    /\ At("read_credentials_2", 195)
    /\ AssignFromConfig("password", "password", 200, 196)
    /\ UNCHANGED <<handles, handling, handled, out, outcome>>

RC2_except_FileNotFoundError ==
    /\ At("read_credentials_2", 196)
    /\ Matches(exc, "FileNotFoundError")
    /\ Catch("read_credentials_2:FileNotFoundError")
    /\ loc' = [loc EXCEPT !.user = Anonymous, !.password = PyNone]
    /\ pc' = 200
    /\ UNCHANGED <<handles, raised, handling, out, outcome>>

RC2_unhandled ==
    /\ At("read_credentials_2", 196)
    /\ ~Matches(exc, "FileNotFoundError")
    /\ pc' = 200
    /\ UNCHANGED <<handles, loc, exc, raised, handling, handled, out, outcome>>

RC2_finally ==
    /\ At("read_credentials_2", 200)
    /\ FinallyClose(202)
    /\ UNCHANGED <<loc, handling, handled, out>>

RC2_return ==
    /\ At("read_credentials_2", 202)
    /\ Return(Tuple(loc.user, loc.password))
    /\ UNCHANGED <<handles, loc, raised, handling, handled, out>>

----------------------------------------------------------------------------
(* read_credentials, third version: try / except / else / finally *)

CallReadCredentials3 ==
    /\ pc = 0
    /\ \E s \in PathArgs : Begin("read_credentials_3", s, 213)

RC3_open ==
    /\ At("read_credentials_3", 213)
    /\ OpenDatasource(218, 214)
    /\ UNCHANGED <<handling, handled, out, outcome>>

RC3_except_FileNotFoundError ==
    /\ At("read_credentials_3", 214)
    /\ IF Matches(exc, "FileNotFoundError")
       THEN /\ Catch("read_credentials_3:FileNotFoundError")
            /\ loc' = [loc EXCEPT !.user = Anonymous, !.password = PyNone]
       ELSE UNCHANGED <<exc, handled, loc>>
    /\ pc' = 222
    /\ UNCHANGED <<handles, raised, handling, out, outcome>>

RC3_else_safe_load ==
    /\ At("read_credentials_3", 218)
    /\ loc' = [loc EXCEPT !.config = SafeLoad(ReadText(loc.datasource))]
    /\ pc' = 219
    /\ UNCHANGED <<handles, exc, raised, handling, handled, out, outcome>>

(* RC3_else_user with the lookup guarded by an except KeyError clause, as *)
(* in the first version.                                                  *)
RC3_user_caught ==
    /\ At("read_credentials_3", 219)
    /\ LET r == Subscript(loc.config, "userid")
       IN IF r.ok
          THEN /\ loc' = [loc EXCEPT !.user = r.val]
               /\ pc' = 220
               /\ UNCHANGED <<raised, handled>>
          ELSE /\ loc' = [loc EXCEPT !.user = Anonymous, !.password = PyNone]
               /\ raised' = Append(raised, NewExc(r.err, 0))
               /\ handled' = Append(handled, [by |-> "read_credentials_3:KeyError",
                                               id |-> Len(raised) + 1, type |-> r.err])
               /\ pc' = 222
    /\ UNCHANGED <<handles, exc, handling, out, outcome>>

RC3_else_user ==
    /\ At("read_credentials_3", 219)
    /\ AssignFromConfig("user", "userid", 220, 222)
    /\ UNCHANGED <<handles, handling, handled, out, outcome>>

RC3_else_password ==
    /\ At("read_credentials_3", 220)
    /\ AssignFromConfig("password", "password", 222, 222)
    /\ UNCHANGED <<handles, handling, handled, out, outcome>>

RC3_finally ==
    /\ At("read_credentials_3", 222)
    /\ FinallyClose(223)
    /\ UNCHANGED <<loc, handling, handled, out>>

RC3_return ==
    /\ At("read_credentials_3", 223)
    /\ Return(Tuple(loc.user, loc.password))
    /\ UNCHANGED <<handles, loc, raised, handling, handled, out>>

----------------------------------------------------------------------------
(* f1 -> f2 -> f3 -> f4 *)

XArgs == {PyInt(x) : x \in 0..4}

CallF1 ==
    /\ pc = 0
    /\ \E x \in XArgs : Begin("f1", x, 271)

(* print(text) at `line`, then the statement at `next`. *)
Say(text, next) ==
    /\ out' = Append(out, text)
    /\ pc' = next
    /\ UNCHANGED <<handles, loc, exc, raised, handling, handled, outcome>>

F1_before ==
    /\ At("f1", 271)
    /\ Say("F1Before", 272)

F1_call_f2 ==
    /\ At("f1", 272)
    /\ pc' = 261
    /\ UNCHANGED <<handles, loc, exc, raised, handling, handled, out, outcome>>

F2_before ==
    /\ At("f1", 261)
    /\ Say("F2Before", 262)

F2_call_f3 ==
    /\ At("f1", 262)
    /\ pc' = 251
    /\ UNCHANGED <<handles, loc, exc, raised, handling, handled, out, outcome>>

F3_before ==
    /\ At("f1", 251)
    /\ Say("F3Before", 252)

F3_call_f4 ==
    /\ At("f1", 252)
    /\ pc' = 238
    /\ UNCHANGED <<handles, loc, exc, raised, handling, handled, out, outcome>>

(* The body of f4: returns to line 253 of f3, or raises into f3's try. *)
F4_body ==
    /\ At("f1", 238)
    /\ CASE arg.v = 0 -> pc' = 253 /\ UNCHANGED <<exc, raised>>
         [] arg.v = 1 -> Throw("ArithmeticError", 254)
         [] arg.v = 2 -> Throw("SyntaxError", 254)
         [] arg.v = 3 -> Throw("TypeError", 254)
         [] OTHER -> pc' = 253 /\ UNCHANGED <<exc, raised>>
    /\ UNCHANGED <<handles, loc, handling, handled, out, outcome>>

F3_after ==
    /\ At("f1", 253)
    /\ Say("F3After", 263)

(* F3_except with a bare except: clause. *)
F3_except_everything ==
    /\ At("f1", 254)
    /\ Catch("f3")
    /\ out' = Append(out, "F3Except")
    /\ pc' = 263
    /\ UNCHANGED <<handles, loc, raised, handling, outcome>>

F3_except ==
    /\ At("f1", 254)
    /\ IF Matches(exc, "ArithmeticError")
       THEN /\ Catch("f3")
            /\ out' = Append(out, "F3Except")
            /\ pc' = 263
       ELSE /\ pc' = 264
            /\ UNCHANGED <<exc, handled, out>>
    /\ UNCHANGED <<handles, loc, raised, handling, outcome>>

F2_after ==
    /\ At("f1", 263)
    /\ Say("F2After", 273)

F2_except ==
    /\ At("f1", 264)
    /\ IF Matches(exc, "SyntaxError")
       THEN /\ Catch("f2")
            /\ out' = Append(out, "F2Except")
            /\ pc' = 273
       ELSE /\ pc' = 274
            /\ UNCHANGED <<exc, handled, out>>
    /\ UNCHANGED <<handles, loc, raised, handling, outcome>>

F1_after ==
    /\ At("f1", 273)
    /\ out' = Append(out, "F1After")
    /\ Return(PyNone)
    /\ UNCHANGED <<handles, loc, raised, handling, handled>>

F1_except ==
    /\ At("f1", 274)
    /\ IF Matches(exc, "TypeError")
       THEN /\ Catch("f1")
            /\ out' = Append(out, "F1Except")
            /\ pc' = 0
            /\ outcome' = [kind |-> "return", val |-> PyNone, exc |-> NoExc]
       ELSE /\ Escape(exc)
            /\ UNCHANGED <<handled, out>>
    /\ UNCHANGED <<handles, loc, raised, handling>>

----------------------------------------------------------------------------
(* analysis.  While the body of an except clause runs, the exception it   *)
(* caught is on the handling stack and becomes the context of an exception *)
(* raised there; leaving the body normally empties the stack.              *)

Super == Str(<<"Super">>)

AnalysisArgs ==
    PathArgs \cup
    { Dict([k \in {"modelname"} |-> Super]),
      Dict([k \in {"title"} |-> Super]),
      Str(<<"modelname", ":", "Amazing">>),
      Str(<<"title", ":", "Amazing">>) }

(* content = open(source); a failure goes to `to`, or leaves the call when *)
(* no try statement encloses the line (to = 0).                             *)
OpenContent(next, to) ==
    IF CanOpen(loc.source)
    THEN /\ handles' = Append(handles, [path |-> loc.source.s[1], closed |-> FALSE])
         /\ loc' = [loc EXCEPT !.content = File(Len(handles) + 1)]
         /\ pc' = next
         /\ UNCHANGED <<exc, raised, outcome>>
    ELSE /\ IF to = 0
            THEN RaiseOut("FileNotFoundError", 0)
            ELSE Throw("FileNotFoundError", to) /\ UNCHANGED outcome
         /\ UNCHANGED <<handles, loc>>

(* name = source['modelname']; a failure goes to `to`, or leaves the call *)
(* when to = 0.                                                            *)
AssignName(next, to) ==
    LET r == Subscript(loc.source, "modelname")
    IN IF r.ok
       THEN /\ loc' = [loc EXCEPT !.name = r.val]
            /\ pc' = next
            /\ UNCHANGED <<exc, raised, outcome>>
       ELSE /\ IF to = 0
               THEN RaiseOut(r.err, 0)
               ELSE Throw(r.err, to) /\ UNCHANGED outcome
            /\ UNCHANGED loc

(* print(name), the last statement of analysis. *)
SayName ==
    /\ out' = Append(out, loc.name)
    /\ Return(PyNone)
    /\ UNCHANGED <<handles, loc, raised, handling, handled>>

(* first version: test the type *)

CallAnalysis1 ==
    /\ pc = 0
    /\ \E s \in AnalysisArgs : Begin("analysis_1", s, 318)

AN1_if_dict ==
    /\ At("analysis_1", 318)
    /\ pc' = IF loc.source.t = "dict" THEN 319 ELSE 321
    /\ UNCHANGED <<handles, loc, exc, raised, handling, handled, out, outcome>>

AN1_name_from_dict ==
    /\ At("analysis_1", 319)
    /\ AssignName(324, 0)
    /\ UNCHANGED <<handles, handling, handled, out>>

AN1_open ==
    /\ At("analysis_1", 321)
    /\ OpenContent(322, 0)
    /\ UNCHANGED <<handling, handled, out>>

AN1_safe_load ==
    /\ At("analysis_1", 322)
    /\ loc' = [loc EXCEPT !.source = SafeLoad(ReadText(loc.content))]
    /\ pc' = 323
    /\ UNCHANGED <<handles, exc, raised, handling, handled, out, outcome>>

AN1_name_from_file ==
    /\ At("analysis_1", 323)
    /\ AssignName(324, 0)
    /\ UNCHANGED <<handles, handling, handled, out>>

AN1_print ==
    /\ At("analysis_1", 324)
    /\ SayName

(* second version: try it and handle the TypeError *)

CallAnalysis2 ==
    /\ pc = 0
    /\ \E s \in AnalysisArgs : Begin("analysis_2", s, 350)

AN2_try_name ==
    /\ At("analysis_2", 350)
    /\ AssignName(355, 351)
    /\ UNCHANGED <<handles, handling, handled, out>>

(* AN2_except_TypeError with the clause naming KeyError. *)
AN2_except_KeyError ==
    /\ At("analysis_2", 351)
    /\ IF Matches(exc, "KeyError")
       THEN /\ Catch("analysis_2:KeyError")
            /\ handling' = Append(handling, exc.id)
            /\ pc' = 352
            /\ UNCHANGED outcome
       ELSE /\ Escape(exc)
            /\ UNCHANGED <<handled, handling>>
    /\ UNCHANGED <<handles, loc, raised, out>>

AN2_except_TypeError ==
    /\ At("analysis_2", 351)
    /\ IF Matches(exc, "TypeError")
       THEN /\ Catch("analysis_2:TypeError")
            /\ handling' = Append(handling, exc.id)
            /\ pc' = 352
            /\ UNCHANGED outcome
       ELSE /\ Escape(exc)
            /\ UNCHANGED <<handled, handling>>
    /\ UNCHANGED <<handles, loc, raised, out>>

AN2_open ==
    /\ At("analysis_2", 352)
    /\ OpenContent(353, 0)
    /\ UNCHANGED <<handling, handled, out>>

AN2_safe_load ==
    /\ At("analysis_2", 353)
    /\ loc' = [loc EXCEPT !.source = SafeLoad(ReadText(loc.content))]
    /\ pc' = 354
    /\ UNCHANGED <<handles, exc, raised, handling, handled, out, outcome>>

AN2_name_from_file ==
    /\ At("analysis_2", 354)
    /\ AssignName(355, 0)
    /\ handling' = IF Subscript(loc.source, "modelname").ok THEN <<>> ELSE handling
    /\ UNCHANGED <<handles, handled, out>>

AN2_print ==
    /\ At("analysis_2", 355)
    /\ SayName

(* final version: a string that cannot be opened is raw YAML *)

CallAnalysis3 ==
    /\ pc = 0
    /\ \E s \in AnalysisArgs : Begin("analysis_3", s, 368)

AN3_try_name ==
    /\ At("analysis_3", 368)
    /\ AssignName(380, 369)
    /\ UNCHANGED <<handles, handling, handled, out>>

AN3_except_TypeError ==
    /\ At("analysis_3", 369)
    /\ IF Matches(exc, "TypeError")
       THEN /\ Catch("analysis_3:TypeError")
            /\ handling' = Append(handling, exc.id)
            /\ pc' = 373
            /\ UNCHANGED outcome
       ELSE /\ Escape(exc)
            /\ UNCHANGED <<handled, handling>>
    /\ UNCHANGED <<handles, loc, raised, out>>

AN3_open ==
    /\ At("analysis_3", 373)
    /\ OpenContent(374, 376)
    /\ UNCHANGED <<handling, handled, out>>

AN3_safe_load_file ==
    /\ At("analysis_3", 374)
    /\ loc' = [loc EXCEPT !.source = SafeLoad(ReadText(loc.content))]
    /\ pc' = 375
    /\ UNCHANGED <<handles, exc, raised, handling, handled, out, outcome>>

AN3_name_from_file ==
    /\ At("analysis_3", 375)
    /\ AssignName(380, 376)
    /\ handling' = IF Subscript(loc.source, "modelname").ok THEN <<>> ELSE handling
    /\ UNCHANGED <<handles, handled, out>>

(* AN3_except_IOError with the clause naming KeyError. *)
AN3_except_KeyError ==
    /\ At("analysis_3", 376)
    /\ IF Matches(exc, "KeyError")
       THEN /\ Catch("analysis_3:KeyError")
            /\ handling' = Append(handling, exc.id)
            /\ pc' = 378
            /\ UNCHANGED outcome
       ELSE /\ Escape(exc)
            /\ UNCHANGED <<handled, handling>>
    /\ UNCHANGED <<handles, loc, raised, out>>

AN3_except_IOError ==
    /\ At("analysis_3", 376)
    /\ IF Matches(exc, "IOError")
       THEN /\ Catch("analysis_3:IOError")
            /\ handling' = Append(handling, exc.id)
            /\ pc' = 378
            /\ UNCHANGED outcome
       ELSE /\ Escape(exc)
            /\ UNCHANGED <<handled, handling>>
    /\ UNCHANGED <<handles, loc, raised, out>>

AN3_safe_load_source ==
    /\ At("analysis_3", 378)
    /\ loc' = [loc EXCEPT !.source = SafeLoad(loc.source.s)]
    /\ pc' = 379
    /\ UNCHANGED <<handles, exc, raised, handling, handled, out, outcome>>

AN3_name_from_source ==
    /\ At("analysis_3", 379)
    /\ AssignName(380, 0)
    /\ handling' = IF Subscript(loc.source, "modelname").ok THEN <<>> ELSE handling
    /\ UNCHANGED <<handles, handled, out>>

AN3_print ==
    /\ At("analysis_3", 380)
    /\ SayName

----------------------------------------------------------------------------
(* lower_function, higher_function *)

CallHigherFunction ==
    /\ pc = 0
    /\ Begin("higher_function", PyNone, 413)

HF_call_lower ==
    /\ At("higher_function", 413)
    /\ pc' = 408
    /\ UNCHANGED <<handles, loc, exc, raised, handling, handled, out, outcome>>

LF_raise ==
    /\ At("higher_function", 408)
    /\ Throw("ValueError", 414)
    /\ UNCHANGED <<handles, loc, handling, handled, out, outcome>>

HF_except_ValueError ==
    /\ At("higher_function", 414)
    /\ IF Matches(exc, "ValueError")
       THEN /\ Catch("higher_function:ValueError")
            /\ loc' = [loc EXCEPT !.e = exc]
            /\ handling' = Append(handling, exc.id)
            /\ pc' = 415
            /\ UNCHANGED outcome
       ELSE /\ Escape(exc)
            /\ UNCHANGED <<handled, handling, loc>>
    /\ UNCHANGED <<handles, raised, out>>

(* HF_raise_from without the "from e". *)
HF_raise_plain ==
    /\ At("higher_function", 415)
    /\ RaiseOut("RuntimeError", 0)
    /\ UNCHANGED <<handles, loc, handling, handled, out>>

HF_raise_from ==
    /\ At("higher_function", 415)
    /\ RaiseOut("RuntimeError", loc.e.id)
    /\ UNCHANGED <<handles, loc, handling, handled, out>>

----------------------------------------------------------------------------
(* Comprehensions (ch01python/037comprehensions.ipynb.py) *)

(* The largest range(n) the comprehension cells are run with. *)
MaxN == 30

NArgs == {PyInt(n) : n \in 0..MaxN}

(* range(n) as the sequence 0, 1, ..., n-1 *)
Range(n) == [i \in 1..n |-> i - 1]

(* 2 ** x *)
Pow2(x) == 2 ^ x

(* x % 3 == 0 *)
DivisibleBy3(x) == x % 3 = 0

(* [2 ** x for x in seq] *)
PowersComprehension(seq) == [i \in 1..Len(seq) |-> Pow2(seq[i])]

(* [2 ** x for x in seq if x % 3 == 0] *)
FilteredPowersComprehension(seq) ==
    PowersComprehension(SelectSeq(seq, DivisibleBy3))

(* The cell [2 ** x for x in range(n)] *)
CellComprehension ==
    /\ pc = 0
    /\ \E n \in NArgs : Begin("comprehension", n, 25)

Comp_eval ==
    /\ At("comprehension", 25)
    /\ Return(List(PowersComprehension(Range(arg.v))))
    /\ UNCHANGED <<handles, loc, raised, handling, handled, out>>

(* The cell [2 ** x for x in range(n) if x % 3 == 0] *)
CellFilteredComprehension ==
    /\ pc = 0
    /\ \E n \in NArgs : Begin("filtered_comprehension", n, 50)

FComp_eval ==
    /\ At("filtered_comprehension", 50)
    /\ Return(List(FilteredPowersComprehension(Range(arg.v))))
    /\ UNCHANGED <<handles, loc, raised, handling, handled, out>>

(* ForNext over a range that includes its end point. *)
ForNextInclusive(body, after) ==
    IF loc.it <= arg.v
    THEN /\ loc' = [loc EXCEPT !.x = PyInt(loc.it), !.it = loc.it + 1]
         /\ pc' = body
    ELSE /\ pc' = after
         /\ UNCHANGED loc

(* for x in range(n): the iterator yields its next value into x and the   *)
(* body at `body` runs, or it is exhausted and control goes to `after`.    *)
ForNext(body, after) ==
    IF loc.it < arg.v
    THEN /\ loc' = [loc EXCEPT !.x = PyInt(loc.it), !.it = loc.it + 1]
         /\ pc' = body
    ELSE /\ pc' = after
         /\ UNCHANGED loc

(* result.append(2 ** x) *)
AppendPower ==
    loc' = [loc EXCEPT !.result = List(Append(loc.result.items, Pow2(loc.x.v)))]

(* The append loop of lines 31-35 *)
CellLoop ==
    /\ pc = 0
    /\ \E n \in NArgs : Begin("loop", n, 31)

Loop_init ==
    /\ At("loop", 31)
    /\ loc' = [loc EXCEPT !.result = List(<<>>), !.it = 0]
    /\ pc' = 32
    /\ UNCHANGED <<handles, exc, raised, handling, handled, out, outcome>>

Loop_for ==
    /\ At("loop", 32)
    /\ ForNext(33, 35)
    /\ UNCHANGED <<handles, exc, raised, handling, handled, out, outcome>>

Loop_append ==
    /\ At("loop", 33)
    /\ AppendPower
    /\ pc' = 32
    /\ UNCHANGED <<handles, exc, raised, handling, handled, out, outcome>>

Loop_result ==
    /\ At("loop", 35)
    /\ Return(loc.result)
    /\ UNCHANGED <<handles, loc, raised, handling, handled, out>>

(* The filtered append loop of lines 66-70 *)
CellFilteredLoop ==
    /\ pc = 0
    /\ \E n \in NArgs : Begin("filtered_loop", n, 66)

FLoop_init ==
    /\ At("filtered_loop", 66)
    /\ loc' = [loc EXCEPT !.result = List(<<>>), !.it = 0]
    /\ pc' = 67
    /\ UNCHANGED <<handles, exc, raised, handling, handled, out, outcome>>

FLoop_for ==
    /\ At("filtered_loop", 67)
    /\ ForNext(68, 70)
    /\ UNCHANGED <<handles, exc, raised, handling, handled, out, outcome>>

FLoop_if ==
    /\ At("filtered_loop", 68)
    /\ pc' = IF DivisibleBy3(loc.x.v) THEN 69 ELSE 67
    /\ UNCHANGED <<handles, loc, exc, raised, handling, handled, out, outcome>>

FLoop_append ==
    /\ At("filtered_loop", 69)
    /\ AppendPower
    /\ pc' = 67
    /\ UNCHANGED <<handles, exc, raised, handling, handled, out, outcome>>

FLoop_result ==
    /\ At("filtered_loop", 70)
    /\ Return(loc.result)
    /\ UNCHANGED <<handles, loc, raised, handling, handled, out>>

----------------------------------------------------------------------------

(* The state before any cell has run.  The notebook writes three of its  *)
(* four files itself; datasource.yaml is whatever the working directory  *)
(* holds.                                                                *)
StartState ==
    /\ handles = <<>>
    /\ cell = "none"
    /\ arg = PyNone
    /\ pc = 0
    /\ loc = NoLocals
    /\ exc = NoExc
    /\ raised = <<>>
    /\ handling = <<>>
    /\ handled = <<>>
    /\ out = <<>>
    /\ outcome = NoOutcome
    /\ trace = <<>>
    /\ prev = NoPrev

Init ==
    /\ fs \in {f \in [Paths -> FileStates] :
                   \A p \in Paths \ {"datasource.yaml"} : f[p] = Absent}
    /\ StartState

Next ==
    \/ WriteCredentialFiles \/ WriteExample
    \/ CallReadCredentials1
    \/ RC1_open \/ RC1_safe_load \/ RC1_user \/ RC1_password \/ RC1_close
    \/ RC1_except_FileNotFoundError \/ RC1_except_KeyError \/ RC1_unhandled
    \/ RC1_return
    \/ CallReadCredentials2
    \/ RC2_open \/ RC2_safe_load \/ RC2_user \/ RC2_password
    \/ RC2_except_FileNotFoundError \/ RC2_unhandled \/ RC2_finally \/ RC2_return
    \/ CallReadCredentials3
    \/ RC3_open \/ RC3_except_FileNotFoundError \/ RC3_else_safe_load
    \/ RC3_else_user \/ RC3_else_password \/ RC3_finally \/ RC3_return
    \/ CallF1
    \/ F1_before \/ F1_call_f2 \/ F2_before \/ F2_call_f3 \/ F3_before \/ F3_call_f4
    \/ F4_body \/ F3_after \/ F3_except \/ F2_after \/ F2_except \/ F1_after
    \/ F1_except
    \/ CallAnalysis1
    \/ AN1_if_dict \/ AN1_name_from_dict \/ AN1_open \/ AN1_safe_load
    \/ AN1_name_from_file \/ AN1_print
    \/ CallAnalysis2
    \/ AN2_try_name \/ AN2_except_TypeError \/ AN2_open \/ AN2_safe_load
    \/ AN2_name_from_file \/ AN2_print
    \/ CallAnalysis3
    \/ AN3_try_name \/ AN3_except_TypeError \/ AN3_open \/ AN3_safe_load_file
    \/ AN3_name_from_file \/ AN3_except_IOError \/ AN3_safe_load_source
    \/ AN3_name_from_source \/ AN3_print
    \/ CallHigherFunction
    \/ HF_call_lower \/ LF_raise \/ HF_except_ValueError \/ HF_raise_from

Spec == Init /\ [][Next]_vars

(* The comprehensions notebook: it touches no file. *)
CompInit ==
    /\ fs = [p \in Paths |-> Absent]
    /\ StartState

CompNext ==
    \/ CellComprehension \/ Comp_eval
    \/ CellFilteredComprehension \/ FComp_eval
    \/ CellLoop \/ Loop_init \/ Loop_for \/ Loop_append \/ Loop_result
    \/ CellFilteredLoop \/ FLoop_init \/ FLoop_for \/ FLoop_if \/ FLoop_append
    \/ FLoop_result

CompSpec == CompInit /\ [][CompNext]_vars

----------------------------------------------------------------------------
(* Properties *)

(* The call has ended. *)
Exited == pc = 0 /\ outcome.kind # "none"

(* The statement at `line` has been executed by this call. *)
Ran(line) == \E i \in DOMAIN trace : trace[i] = line

(* What yaml.safe_load gives for the file the path argument names. *)
FileConfig(source) == SafeLoad(fs[source.s[1]].text)

HasKeys(v, keys) == v.t = "dict" /\ keys \subseteq DOMAIN v.m

AllClosed == \A h \in DOMAIN handles : handles[h].closed

ReturnedAnonymous ==
    /\ outcome.kind = "return"
    /\ outcome.val = Tuple(Anonymous, PyNone)

(* C1: f1(x), x in 0..3, ends without an exception escaping; the exception *)
(* f4 raises is intercepted by exactly one handler, the one whose type     *)
(* matches: x = 1 in f3, x = 2 in f2 after passing f3's except clause,     *)
(* x = 3 in f1 after passing those of f3 and f2; x = 0 triggers none.      *)
C1_OneMatchingHandler ==
    cell = "f1" /\ arg.v \in 0..3 =>
        /\ Len(handled) <= 1
        /\ Exited =>
            /\ outcome.kind = "return"
            /\ Len(raised) = IF arg.v = 0 THEN 0 ELSE 1
            /\ handled =
                 CASE arg.v = 0 -> <<>>
                   [] arg.v = 1 -> <<[by |-> "f3", id |-> 1, type |-> "ArithmeticError"]>>
                   [] arg.v = 2 -> <<[by |-> "f2", id |-> 1, type |-> "SyntaxError"]>>
                   [] arg.v = 3 -> <<[by |-> "f1", id |-> 1, type |-> "TypeError"]>>
            /\ arg.v \in {2, 3} => Ran(254)
            /\ arg.v = 3 => Ran(264)
            /\ arg.v = 0 => ~Ran(254) /\ ~Ran(264) /\ ~Ran(274)

C1_Witness ==
    /\ cell = "f1" /\ Exited /\ arg.v = 3
    /\ Len(handled) = 1 /\ handled[1].by = "f1"
    /\ Ran(254) /\ Ran(264)

(* C2: in the second and third versions of read_credentials the finally   *)
(* clause runs on every path, so when the call has ended, by a return or  *)
(* by an exception, every file it opened is closed.                       *)
C2_FinallyClosesFile ==
    /\ cell = "read_credentials_2" /\ Exited => Ran(200) /\ AllClosed
    /\ cell = "read_credentials_3" /\ Exited => Ran(222) /\ AllClosed

C2_Witness ==
    /\ cell = "read_credentials_2" /\ Exited
    /\ outcome.kind = "raise" /\ outcome.exc.type = "KeyError"
    /\ handles # <<>> /\ handles[1].closed

(* C3: in each of the three versions of read_credentials, when the file   *)
(* does not exist the call returns ('anonymous', None) and no exception   *)
(* escapes.                                                               *)
C3_MissingFileReturnsAnonymous ==
    /\ cell \in {"read_credentials_1", "read_credentials_2", "read_credentials_3"}
    /\ Exited
    /\ ~CanOpen(arg)
    => ReturnedAnonymous

(* C4: the append loops end with the list the comprehension denotes, for  *)
(* every n: the filtered loop with [2 ** x for x in range(n) if x % 3 == 0] *)
(* and the plain loop with [2 ** x for x in range(n)].                    *)
C4_LoopEqualsComprehension ==
    /\ cell = "filtered_loop" /\ Exited =>
          /\ outcome.kind = "return"
          /\ outcome.val = List(FilteredPowersComprehension(Range(arg.v)))
    /\ cell = "loop" /\ Exited =>
          /\ outcome.kind = "return"
          /\ outcome.val = List(PowersComprehension(Range(arg.v)))

C4_Witness ==
    /\ cell = "filtered_loop" /\ Exited /\ arg.v = 10
    /\ outcome.val = List(<<1, 8, 64, 512>>)

(* C5: higher_function() never returns and never lets the ValueError      *)
(* escape: it ends by raising a RuntimeError whose cause is the           *)
(* ValueError raised in lower_function.                                   *)
C5_RuntimeErrorFromValueError ==
    cell = "higher_function" /\ Exited =>
        /\ outcome.kind = "raise"
        /\ outcome.exc.type = "RuntimeError"
        /\ outcome.exc.cause \in DOMAIN raised
        /\ raised[outcome.exc.cause].type = "ValueError"
        /\ raised[outcome.exc.cause].line = 408

C5_Witness ==
    /\ cell = "higher_function" /\ Exited
    /\ outcome.exc.type = "RuntimeError" /\ outcome.exc.cause = 1

(* C6: in the first version of read_credentials, when the file opens but  *)
(* its mapping lacks 'userid' or 'password', the KeyError is handled, the *)
(* call returns ('anonymous', None) and the file is left unclosed; the    *)
(* file is closed exactly on the path where both keys are present.        *)
C6_KeyErrorLeavesFileOpen ==
    cell = "read_credentials_1" /\ Exited /\ handles # <<>> =>
        LET config == FileConfig(arg)
            both == HasKeys(config, {"userid", "password"})
        IN /\ handles[1].closed <=> both
           /\ both => outcome.kind = "return"
                      /\ outcome.val = Tuple(config.m["userid"], config.m["password"])
           /\ config.t = "dict" /\ ~both =>
                 /\ ReturnedAnonymous
                 /\ Len(handled) = 1
                 /\ handled[1].by = "read_credentials_1:KeyError"
                 /\ handled[1].type = "KeyError"

C6_Witness ==
    /\ cell = "read_credentials_1" /\ Exited
    /\ handles # <<>> /\ ~handles[1].closed
    /\ Len(handled) = 1 /\ handled[1].type = "KeyError"
    /\ ReturnedAnonymous

(* C7 as stated: the final analysis prints the model name, and raises     *)
(* nothing, for every dictionary containing 'modelname', every string     *)
(* naming an existing YAML file and every string that does not name an    *)
(* openable file.                                                         *)
C7_EverySourcePrints ==
    /\ cell = "analysis_3" /\ Exited
    /\ HasKeys(arg, {"modelname"}) \/ arg.t = "str"
    => outcome.kind = "return" /\ Len(out) = 1

(* C7 amended: the final analysis prints the model name, and raises       *)
(* nothing, for a dictionary containing 'modelname', for a string naming  *)
(* an existing file whose YAML is a mapping containing 'modelname', and   *)
(* for a string that names no openable file and is itself YAML for a      *)
(* mapping containing 'modelname' (the IOError from open is handled).     *)
C7_SourcesWithModelnamePrint ==
    cell = "analysis_3" /\ Exited =>
        /\ HasKeys(arg, {"modelname"}) =>
              /\ outcome.kind = "return"
              /\ out = <<arg.m["modelname"]>>
              /\ handled = <<>>
        /\ arg.t = "str" /\ CanOpen(arg) /\ HasKeys(FileConfig(arg), {"modelname"}) =>
              /\ outcome.kind = "return"
              /\ out = <<FileConfig(arg).m["modelname"]>>
              /\ Len(handled) = 1 /\ handled[1].by = "analysis_3:TypeError"
        /\ arg.t = "str" /\ ~CanOpen(arg) /\ HasKeys(SafeLoad(arg.s), {"modelname"}) =>
              /\ outcome.kind = "return"
              /\ out = <<SafeLoad(arg.s).m["modelname"]>>
              /\ Len(handled) = 2
              /\ handled[2].by = "analysis_3:IOError"
              /\ handled[2].type = "FileNotFoundError"

C7_Witness ==
    /\ cell = "analysis_3" /\ Exited
    /\ arg = Str(<<"modelname", ":", "Amazing">>)
    /\ out = <<Str(<<"Amazing">>)>>
    /\ Len(handled) = 2

(* C8: in the third version of read_credentials the else clause runs only *)
(* when open(source) raised nothing, and an error raised in it is not     *)
(* caught: when the file opens but its mapping lacks 'userid' or          *)
(* 'password', the KeyError leaves the call, which does not return        *)
(* ('anonymous', None).                                                   *)
C8_ElseErrorsNotCaught ==
    cell = "read_credentials_3" =>
        /\ Ran(218) => /\ Ran(213)
                       /\ \A i \in DOMAIN raised : raised[i].line # 213
                       /\ ~Ran(214)
        /\ /\ Exited
           /\ CanOpen(arg)
           /\ FileConfig(arg).t = "dict"
           /\ ~HasKeys(FileConfig(arg), {"userid", "password"})
           => /\ outcome.kind = "raise"
              /\ outcome.exc.type = "KeyError"
              /\ outcome.exc.line \in {219, 220}
              /\ handled = <<>>

C8_Witness ==
    /\ cell = "read_credentials_3" /\ Exited
    /\ outcome.kind = "raise" /\ outcome.exc.type = "KeyError"
    /\ Ran(218)

(* C9: the type-testing analysis and the try-it analysis end the same way *)
(* for every source that is a dict containing 'modelname' or a path to an *)
(* existing YAML file containing 'modelname': both print the same name    *)
(* and neither raises.                                                    *)
C9_SameOutcome ==
    /\ cell = "analysis_2" /\ Exited
    /\ prev.cell = "analysis_1" /\ prev.arg = arg
    /\ \/ HasKeys(arg, {"modelname"})
       \/ arg.t = "str" /\ CanOpen(arg) /\ HasKeys(FileConfig(arg), {"modelname"})
    => /\ outcome.kind = "return"
       /\ prev.outcome.kind = "return"
       /\ Len(out) = 1
       /\ out = prev.out

C9_Witness ==
    /\ cell = "analysis_2" /\ Exited
    /\ prev.cell = "analysis_1" /\ prev.arg = arg
    /\ arg = Str(<<"example.yaml">>)
    /\ out = <<Str(<<"brilliant">>)>>
    /\ prev.out = out

====
